---- MODULE Spec2Model ----
(***************************************************************************)
(* Model of src/src/hci_transport_h4.c: the H4 receive framer              *)
(* (hci_transport_h4_block_read), the send gate (uart_write_active,        *)
(* hci_transport_h4_send_packet, hci_transport_h4_block_sent) and the      *)
(* transport facade (open, close, register_packet_handler).                *)
(*                                                                         *)
(* The UART block driver (btstack_uart) and the packet consumer are        *)
(* external: the driver is a pair of request queues whose head is          *)
(* completed by a callback, the consumer is a handler that may call the    *)
(* facade while it runs.                                                   *)
(***************************************************************************)
EXTENDS Integers, Sequences, FiniteSets, TLC

(***************************************************************************)
(* Program constants (hci.h / bluetooth.h / btstack_defines.h values used  *)
(* by the source).                                                         *)
(***************************************************************************)
HCI_COMMAND_DATA_PACKET == 1
HCI_ACL_DATA_PACKET == 2
HCI_SCO_DATA_PACKET == 3
HCI_EVENT_PACKET == 4
HCI_EVENT_HEADER_SIZE == 2
HCI_ACL_HEADER_SIZE == 4
HCI_SCO_HEADER_SIZE == 3
HCI_EVENT_TRANSPORT_PACKET_SENT == 110

\* H4_STATE, lines 64-70
H4_W4_PACKET_TYPE == "H4_W4_PACKET_TYPE"
H4_W4_EVENT_HEADER == "H4_W4_EVENT_HEADER"
H4_W4_ACL_HEADER == "H4_W4_ACL_HEADER"
H4_W4_SCO_HEADER == "H4_W4_SCO_HEADER"
H4_W4_PAYLOAD == "H4_W4_PAYLOAD"
H4_STATE == {H4_W4_PACKET_TYPE, H4_W4_EVENT_HEADER, H4_W4_ACL_HEADER,
             H4_W4_SCO_HEADER, H4_W4_PAYLOAD}

(***************************************************************************)
(* Bounds of the model.                                                    *)
(***************************************************************************)
\* A run has one of four focuses.  With the focus on receiving, the driver
\* completes up to MaxReadBlocks read blocks and the consumer makes up to
\* FewFacadeCalls facade calls; with the focus on sending, up to FewReadBlocks
\* read blocks and up to MaxFacadeCalls facade calls.  Both start from a
\* transport that init() has set up.  With the focus on init, the run starts
\* from the statics as C initialises them and has up to MaxInitCalls init
\* calls, FewReadBlocks read blocks and FewFacadeCalls facade calls.
MaxReadBlocks == 6
FewFacadeCalls == 1
FewReadBlocks == 2
MaxFacadeCalls == 4
\* with the focus on the handler: enough read blocks for one packet and enough
\* facade calls to register a handler, open the port and call from the handler
HandlerReadBlocks == 3
HandlerFacadeCalls == 3
\* payload reads of at most this many bytes have a content for every base
MaxFreePayload == 2
\* init calls of a run
MaxInitCalls == 2

(***************************************************************************)
(* Input sets.                                                             *)
(***************************************************************************)
\* builds: HCI_PACKET_BUFFER_SIZE = max(acl header + acl payload, event header + 255)
PacketBufferSizes == {257, 261}
\* tag bytes on the wire: the three packet types and one corrupt tag
TypeBytes == {HCI_EVENT_PACKET, HCI_ACL_DATA_PACKET, HCI_SCO_DATA_PACKET, 255}
EventLens == {0, 2, 255}
ScoLens == {0, 255}
AclLens == {0, 253, 254, 257, 258}
\* first byte of a short payload; a long payload has one content
PayloadBases == {171, 205}
\* driver return codes: 0 is success
DriverResults == {0, -1}
\* values register_packet_handler may be given (dummy_handler is static)
Handlers == {"consumer", "NULL"}
\* configurations init may be given: none, one of another kind, one for a UART
TransportConfigs ==
    {[present |-> FALSE, type |-> "none", baudrate_init |-> 0, flowcontrol |-> 0,
      device_name |-> "NULL"],
     [present |-> TRUE, type |-> "HCI_TRANSPORT_CONFIG_USB", baudrate_init |-> 9600,
      flowcontrol |-> 0, device_name |-> "usb"],
     [present |-> TRUE, type |-> "HCI_TRANSPORT_CONFIG_UART", baudrate_init |-> 115200,
      flowcontrol |-> 1, device_name |-> "/dev/ttyS0"]}
\* line speeds set_baudrate may be given
Baudrates == {115200}
\* types and sizes the consumer sends
SendTypes == {HCI_COMMAND_DATA_PACKET, HCI_ACL_DATA_PACKET}
SendSizes == {3}
\* the caller's memory around a payload of size bytes: the pre-buffer (lines
\* 58-60: at least one byte), then the payload
HCI_OUTGOING_PRE_BUFFER_SIZE == 1
OutgoingMemory(size) ==
    [i \in 1..(HCI_OUTGOING_PRE_BUFFER_SIZE + size) |->
        IF i <= HCI_OUTGOING_PRE_BUFFER_SIZE THEN 238 ELSE 16 + i]

VARIABLES
    HCI_PACKET_BUFFER_SIZE, \* the build's buffer size, fixed by Init
    h4_state,               \* line 82
    bytes_to_read,          \* line 83
    read_pos,               \* line 84
    uart_write_active,      \* line 77
    packet_handler,         \* line 79
    hci_packet,             \* line 88: the logical view, indices 0..HCI_PACKET_BUFFER_SIZE
    uart_open,              \* driver: the port is open
    rx_queue,               \* driver: receive_block requests not yet completed
    tx_queue,               \* driver: sizes of the send_block requests not yet completed
    pc,                     \* "idle", or inside a handler invocation, or "crashed"
    running,                \* the handler being executed while pc is a handler state
    overrun,                \* the driver has written past the end of the buffer
    wire,                   \* history: blocks delivered since the last successful open
    rx_blocks,              \* history: read blocks completed so far
    rx_calls,               \* history: receive-path handler invocations since then
    tx_pending,             \* history: send_packet calls whose callback has not fired
    uart_config,            \* line 74
    uart_driver,            \* driver: init calls received, callbacks wired
    init_calls,             \* bound: init calls made so far
    focus,                  \* bound: "init", "receive", "send" or "handler", fixed by Init
    facade_calls,           \* bound: facade calls made so far
    last                    \* history: what the most recent step did

vars == <<HCI_PACKET_BUFFER_SIZE, h4_state, bytes_to_read, read_pos,
          uart_write_active, packet_handler, hci_packet, uart_open, rx_queue,
          tx_queue, pc, running, overrun, wire, rx_blocks, rx_calls,
          tx_pending, uart_config, uart_driver, init_calls, focus,
          facade_calls, last>>

(***************************************************************************)
(* Pure helpers of the source.                                             *)
(***************************************************************************)
\* btstack_util: buffer[pos] | (buffer[pos + 1] << 8), used at line 147
little_endian_read_16(buffer, pos) == (buffer[pos] + 256 * buffer[pos + 1]) % 65536

\* a plausible slip: the reset leaves the cursor behind the discarded byte
reset_statemachine_keeps_cursor ==
    [h4_state |-> H4_W4_PACKET_TYPE, read_pos |-> read_pos + bytes_to_read,
     bytes_to_read |-> 1]

\* lines 95-99
hci_transport_h4_reset_statemachine ==
    [h4_state |-> H4_W4_PACKET_TYPE, read_pos |-> 0, bytes_to_read |-> 1]

\* lines 213-215: the packet type is ignored
hci_transport_h4_can_send_now(packet_type) == uart_write_active = 0

\* a plausible slip: a read of no bytes is avoided by asking for one
event_payload_length_at_least_one(buffer) == IF buffer[2] = 0 THEN 1 ELSE buffer[2]

\* line 142
event_payload_length(buffer) == buffer[2]

\* line 147
acl_payload_length(buffer) == little_endian_read_16(buffer, 3)

\* a plausible slip: the SCO length read from the byte before the length field
sco_payload_length_wrong_offset(buffer) == buffer[2]

\* line 158
sco_payload_length(buffer) == buffer[3]

\* a plausible slip: the length test counts the tag byte as free space
acl_length_invalid_counts_tag(len, size) == HCI_ACL_HEADER_SIZE + len > size + 1

\* a plausible slip: the length test forgets the header
acl_length_invalid_without_header(len, size) == len > size

\* line 149: the ACL length check
acl_length_invalid(len, size) == HCI_ACL_HEADER_SIZE + len > size

\* a plausible slip: the size passed without discounting the tag byte
delivered_size_with_tag(pos) == pos % 65536

\* line 163: the uint16_t size argument, read_pos - 1
delivered_size(pos) == (pos - 1) % 65536

\* line 163: the bytes &hci_packet[1] .. of the given size; a byte beyond the
\* array has no modelled value (-1)
delivered_packet(buffer, size) ==
    [i \in 1..size |-> IF i \in DOMAIN buffer THEN buffer[i] ELSE -1]

\* a plausible slip: the mutex is still held at the dispatch
block_sent_write_active_held(active) == active

\* line 108: block_sent frees the mutex before it dispatches
block_sent_write_active(active) == 0

\* a plausible slip: the driver's result is not looked at
open_failed_ignored(res) == FALSE

\* line 197: the driver could not be opened
open_failed(res) == res # 0

\* a plausible slip: the tag byte is not counted
send_packet_size_without_tag(size) == size

\* line 219: size++
send_packet_size(size) == size + 1

\* line 220: packet--, as an index into the caller's memory
send_packet_start(packet) == packet - 1

\* line 221: *packet = packet_type
send_packet_store(memory, start, packet_type) == [memory EXCEPT ![start] = packet_type]

\* line 224: the value send_packet stores in uart_write_active
send_packet_write_active(active) == 1

\* lines 119-160: the framer's transition for a completed type or header read,
\* with read_pos already advanced (line 117) and the block in the buffer
block_read_header(state, pos, buffer, size) ==
    CASE state = H4_W4_PACKET_TYPE ->
            CASE buffer[0] = HCI_EVENT_PACKET ->
                    [h4_state |-> H4_W4_EVENT_HEADER, read_pos |-> pos,
                     bytes_to_read |-> HCI_EVENT_HEADER_SIZE]
              [] buffer[0] = HCI_ACL_DATA_PACKET ->
                    [h4_state |-> H4_W4_ACL_HEADER, read_pos |-> pos,
                     bytes_to_read |-> HCI_ACL_HEADER_SIZE]
              [] buffer[0] = HCI_SCO_DATA_PACKET ->
                    [h4_state |-> H4_W4_SCO_HEADER, read_pos |-> pos,
                     bytes_to_read |-> HCI_SCO_HEADER_SIZE]
              [] OTHER -> hci_transport_h4_reset_statemachine
      [] state = H4_W4_EVENT_HEADER ->
            [h4_state |-> H4_W4_PAYLOAD, read_pos |-> pos,
             bytes_to_read |-> event_payload_length(buffer)]
      [] state = H4_W4_ACL_HEADER ->
            IF acl_length_invalid(acl_payload_length(buffer), size)
            THEN hci_transport_h4_reset_statemachine
            ELSE [h4_state |-> H4_W4_PAYLOAD, read_pos |-> pos,
                  bytes_to_read |-> acl_payload_length(buffer)]
      [] state = H4_W4_SCO_HEADER ->
            [h4_state |-> H4_W4_PAYLOAD, read_pos |-> pos,
             bytes_to_read |-> sco_payload_length(buffer)]

\* a plausible slip: only the missing configuration is refused
init_config_invalid_null_only(transport_config) == ~transport_config.present

\* lines 174-181: no configuration, or not one for a UART
init_config_invalid(transport_config) ==
    \/ ~transport_config.present
    \/ transport_config.type # "HCI_TRANSPORT_CONFIG_UART"

\* lines 184-187
init_uart_config(transport_config) ==
    [baudrate |-> transport_config.baudrate_init,
     flowcontrol |-> transport_config.flowcontrol,
     device_name |-> transport_config.device_name]

\* lines 190-192: the driver is initialised and both callbacks are wired
init_uart_driver(inits) ==
    [inits |-> inits + 1,
     block_received |-> "hci_transport_h4_block_read",
     block_sent |-> "hci_transport_h4_block_sent"]

\* a plausible slip: the block is requested at the start of the buffer
trigger_next_read_at_buffer_start(pos, len) == [pos |-> 0, len |-> len]

\* lines 101-104: the request receive_block(&hci_packet[read_pos], bytes_to_read)
hci_transport_h4_trigger_next_read(pos, len) == [pos |-> pos, len |-> len]

\* a plausible slip: close() resets the framer as open() does
close_statemachine_reset(state, pos, len) ==
    [h4_state |-> H4_W4_PACKET_TYPE, read_pos |-> 0, bytes_to_read |-> 1]

\* lines 205-207: close() leaves the framer as it is
close_statemachine(state, pos, len) ==
    [h4_state |-> state, read_pos |-> pos, bytes_to_read |-> len]

\* a plausible slip: the reset of line 164 is made before the dispatch
dispatch_state_after_reset(state, pos, len) ==
    [h4_state |-> H4_W4_PACKET_TYPE, read_pos |-> 0, bytes_to_read |-> 1]

\* lines 162-163: the framer's state at the dispatch of a received packet; the
\* reset of line 164 is still to come
dispatch_state(state, pos, len) ==
    [h4_state |-> state, read_pos |-> pos, bytes_to_read |-> len]

\* a plausible slip: after a reset block_read returns without the next read
block_read_requests_none_after_reset(st) ==
    IF st.h4_state = H4_W4_PACKET_TYPE
    THEN <<>>
    ELSE <<hci_transport_h4_trigger_next_read(st.read_pos, st.bytes_to_read)>>

\* line 169: the requests block_read issues before it returns, st being the
\* framer's state then
block_read_requests(st) ==
    <<hci_transport_h4_trigger_next_read(st.read_pos, st.bytes_to_read)>>

(***************************************************************************)
(* The driver and the wire.                                                *)
(***************************************************************************)
\* the contents the driver may deliver for a request of len bytes at pos
Blocks(pos, len) ==
    CASE pos = 0 /\ len = 1 -> {<<t>> : t \in TypeBytes}
      [] pos = 1 /\ len = HCI_EVENT_HEADER_SIZE -> {<<14, l>> : l \in EventLens}
      [] pos = 1 /\ len = HCI_ACL_HEADER_SIZE ->
            {<<1, 32, l % 256, l \div 256>> : l \in AclLens}
      [] pos = 1 /\ len = HCI_SCO_HEADER_SIZE -> {<<1, 0, l>> : l \in ScoLens}
      [] OTHER -> IF len <= MaxFreePayload
                  THEN {[i \in 1..len |-> b + i] : b \in PayloadBases}
                  ELSE {[i \in 1..len |-> i % 256]}

\* the driver stores a block at &hci_packet[pos]; bytes past the array are not kept
DriverStore(buffer, pos, block) ==
    [i \in DOMAIN buffer |->
        IF i >= pos /\ i < pos + Len(block) THEN block[i - pos + 1] ELSE buffer[i]]

\* the request ends past the array of 1 + size bytes that starts at hci_packet
PastBuffer(req, size) == req.pos + req.len > 1 + size

\* what one step did: the facade call or callback, what the driver returned to
\* it, its own return value, the driver requests it issued and the handler
\* invocations it made
Effect(op, driver, ret, reads, writes, calls) ==
    [op |-> op, driver |-> driver, ret |-> ret, reads |-> reads, writes |-> writes,
     calls |-> calls]

\* one invocation packet_handler(packet_type, packet, size), with the state it
\* was made in
Call(src, target, packet_type, packet, size, active, state, pos, outstanding) ==
    [src |-> src, target |-> target, packet_type |-> packet_type,
     packet |-> packet, size |-> size, write_active |-> active,
     h4_state |-> state, read_pos |-> pos, outstanding |-> outstanding]

\* the bounds of the run's focus
ReadBlocksBound ==
    CASE focus = "receive" -> MaxReadBlocks
      [] focus = "handler" -> HandlerReadBlocks
      [] OTHER -> FewReadBlocks
FacadeCallsBound ==
    CASE focus = "send" -> MaxFacadeCalls
      [] focus = "handler" -> HandlerFacadeCalls
      [] OTHER -> FewFacadeCalls
InitCallsBound == IF focus = "init" THEN MaxInitCalls ELSE 0

\* a facade call within the bound
FacadeCall ==
    /\ facade_calls < FacadeCallsBound
    /\ facade_calls' = facade_calls + 1
    /\ UNCHANGED focus

(***************************************************************************)
(* Initial state: the statics of lines 73-88 as C initialises them, with   *)
(* (focus on receiving or sending) or without the effect of init().        *)
(***************************************************************************)
Init ==
    /\ HCI_PACKET_BUFFER_SIZE \in PacketBufferSizes
    /\ h4_state = H4_W4_PACKET_TYPE
    /\ bytes_to_read = 0
    /\ read_pos = 0
    /\ uart_write_active = 0
    /\ packet_handler = "dummy_handler"
    /\ hci_packet = [i \in 0..HCI_PACKET_BUFFER_SIZE |-> 0]
    /\ uart_open = FALSE
    /\ rx_queue = <<>>
    /\ tx_queue = <<>>
    /\ pc = "idle"
    /\ running = "none"
    /\ overrun = FALSE
    /\ wire = <<>>
    /\ rx_blocks = 0
    /\ rx_calls = <<>>
    /\ tx_pending = 0
    /\ focus \in {"init", "receive", "send", "handler"}
    /\ IF focus = "init"
       THEN /\ uart_config = [baudrate |-> 0, flowcontrol |-> 0, device_name |-> "NULL"]
            /\ uart_driver = [inits |-> 0, block_received |-> "NULL",
                              block_sent |-> "NULL"]
       ELSE \E transport_config \in TransportConfigs :
                /\ ~init_config_invalid(transport_config)
                /\ uart_config = init_uart_config(transport_config)
                /\ uart_driver = init_uart_driver(0)
    /\ init_calls = 0
    /\ facade_calls = 0
    /\ last = Effect("start", 0, 0, <<>>, <<>>, <<>>)

(***************************************************************************)
(* Facade calls.  The consumer makes them from its own context (pc =       *)
(* "idle") or, for send_packet and register_packet_handler, from inside    *)
(* its handler.                                                            *)
(***************************************************************************)
InConsumer == pc = "idle" \/ (pc \in {"rx_handler", "tx_handler"} /\ running = "consumer")

\* lines 172-193
hci_transport_h4_init ==
    /\ pc = "idle"
    /\ init_calls < InitCallsBound
    /\ init_calls' = init_calls + 1
    /\ \E transport_config \in TransportConfigs :
        /\ IF init_config_invalid(transport_config)
           THEN UNCHANGED <<uart_config, uart_driver>>
           ELSE /\ uart_config' = init_uart_config(transport_config)
                /\ uart_driver' = init_uart_driver(uart_driver.inits)
        /\ last' = [arg |-> transport_config] @@ Effect("init", 0, 0, <<>>, <<>>, <<>>)
    /\ UNCHANGED <<HCI_PACKET_BUFFER_SIZE, h4_state, bytes_to_read, read_pos,
                   uart_write_active, packet_handler, hci_packet, uart_open, rx_queue,
                   tx_queue, pc, running, overrun, wire, rx_blocks, rx_calls,
                   tx_pending, focus, facade_calls>>

\* lines 195-203.  A successful driver open starts a fresh port: requests of an
\* earlier session are gone.
hci_transport_h4_open ==
    /\ pc = "idle"
    /\ FacadeCall
    /\ \E res \in DriverResults :
        IF open_failed(res)
        THEN /\ last' = Effect("open", res, res, <<>>, <<>>, <<>>)
             /\ UNCHANGED <<HCI_PACKET_BUFFER_SIZE, uart_config, uart_driver, init_calls, h4_state, bytes_to_read, read_pos,
                            uart_write_active, packet_handler, hci_packet, uart_open,
                            rx_queue, tx_queue, pc, running, overrun, wire, rx_blocks,
                            rx_calls, tx_pending>>
        ELSE LET st == hci_transport_h4_reset_statemachine
                 req == hci_transport_h4_trigger_next_read(st.read_pos, st.bytes_to_read)
             IN  /\ uart_open' = TRUE
                 /\ h4_state' = st.h4_state
                 /\ read_pos' = st.read_pos
                 /\ bytes_to_read' = st.bytes_to_read
                 /\ rx_queue' = <<req>>
                 /\ tx_queue' = <<>>
                 /\ wire' = <<>>
                 /\ rx_calls' = <<>>
                 /\ last' = Effect("open", res, 0, <<req>>, <<>>, <<>>)
                 /\ UNCHANGED <<HCI_PACKET_BUFFER_SIZE, uart_config, uart_driver, init_calls, uart_write_active, packet_handler,
                                hci_packet, pc, running, overrun, rx_blocks, tx_pending>>

\* lines 205-207.  After a successful driver close no completion callback
\* occurs: the driver's requests are gone.
hci_transport_h4_close ==
    /\ pc = "idle"
    /\ FacadeCall
    /\ \E res \in DriverResults :
        /\ last' = Effect("close", res, res, <<>>, <<>>, <<>>)
        /\ IF res = 0
           THEN /\ uart_open' = FALSE
                /\ rx_queue' = <<>>
                /\ tx_queue' = <<>>
           ELSE UNCHANGED <<uart_open, rx_queue, tx_queue>>
        /\ LET st == close_statemachine(h4_state, read_pos, bytes_to_read)
           IN  /\ h4_state' = st.h4_state
               /\ read_pos' = st.read_pos
               /\ bytes_to_read' = st.bytes_to_read
        /\ UNCHANGED <<HCI_PACKET_BUFFER_SIZE, uart_config, uart_driver, init_calls,
                       uart_write_active, packet_handler, hci_packet, pc, running,
                       overrun, wire, rx_blocks, rx_calls, tx_pending>>

\* lines 90-93: the driver's result is returned; the driver's line speed is
\* not part of the model
hci_transport_h4_set_baudrate ==
    /\ InConsumer
    /\ FacadeCall
    /\ \E baudrate \in Baudrates, res \in DriverResults :
        last' = [arg |-> baudrate] @@ Effect("set_baudrate", res, res, <<>>, <<>>, <<>>)
    /\ UNCHANGED <<HCI_PACKET_BUFFER_SIZE, uart_config, uart_driver, init_calls,
                   h4_state, bytes_to_read, read_pos, uart_write_active,
                   packet_handler, hci_packet, uart_open, rx_queue, tx_queue, pc,
                   running, overrun, wire, rx_blocks, rx_calls, tx_pending>>

\* lines 213-215, as a call of the consumer
can_send_now ==
    /\ InConsumer
    /\ FacadeCall
    /\ \E packet_type \in SendTypes :
        last' = Effect("can_send_now", 0,
                       IF hci_transport_h4_can_send_now(packet_type) THEN 1 ELSE 0,
                       <<>>, <<>>, <<>>)
    /\ UNCHANGED <<HCI_PACKET_BUFFER_SIZE, uart_config, uart_driver, init_calls,
                   h4_state, bytes_to_read, read_pos, uart_write_active,
                   packet_handler, hci_packet, uart_open, rx_queue, tx_queue, pc,
                   running, overrun, wire, rx_blocks, rx_calls, tx_pending>>

\* lines 209-211
hci_transport_h4_register_packet_handler ==
    /\ InConsumer
    /\ FacadeCall
    /\ \E handler \in Handlers :
        /\ packet_handler' = handler
        /\ last' = Effect("register_packet_handler", 0, 0, <<>>, <<>>, <<>>)
    /\ UNCHANGED <<HCI_PACKET_BUFFER_SIZE, uart_config, uart_driver, init_calls, h4_state, bytes_to_read, read_pos,
                   uart_write_active, hci_packet, uart_open, rx_queue, tx_queue, pc,
                   running, overrun, wire, rx_blocks, rx_calls, tx_pending>>

\* lines 217-229.  The tag is stored in the byte before the caller's payload;
\* the request is size + 1 bytes from the tag.  A closed driver keeps no request.
hci_transport_h4_send_packet ==
    /\ InConsumer
    /\ FacadeCall
    /\ \E packet_type \in SendTypes, size \in SendSizes :
        LET memory == OutgoingMemory(size)
            packet == HCI_OUTGOING_PRE_BUFFER_SIZE + 1
            start == send_packet_start(packet)
            stored == send_packet_store(memory, start, packet_type)
            req == [tag |-> stored[start], addr |-> start,
                    len |-> send_packet_size(size),
                    bytes |-> [i \in 1..send_packet_size(size) |-> stored[start + i - 1]],
                    memory |-> stored]
            arg == [packet_type |-> packet_type, memory |-> memory,
                    packet |-> packet, size |-> size]
        IN  /\ uart_write_active' = send_packet_write_active(uart_write_active)
            /\ tx_queue' = IF uart_open THEN Append(tx_queue, req.len) ELSE tx_queue
            /\ tx_pending' = tx_pending + 1
            /\ last' = [arg |-> arg] @@ Effect("send_packet", 0, 0, <<>>, <<req>>, <<>>)
    /\ UNCHANGED <<HCI_PACKET_BUFFER_SIZE, uart_config, uart_driver, init_calls, h4_state, bytes_to_read, read_pos,
                   packet_handler, hci_packet, uart_open, rx_queue, pc, running,
                   overrun, wire, rx_blocks, rx_calls>>

(***************************************************************************)
(* Driver callbacks.                                                       *)
(***************************************************************************)
\* lines 106-113: the driver completes the oldest write and calls block_sent
hci_transport_h4_block_sent ==
    /\ pc = "idle"
    /\ uart_open
    /\ uart_driver.block_sent = "hci_transport_h4_block_sent"
    /\ tx_queue # <<>>
    /\ LET active == block_sent_write_active(uart_write_active)
           event == <<HCI_EVENT_TRANSPORT_PACKET_SENT, 0>>
           call == Call("block_sent", packet_handler, HCI_EVENT_PACKET, event,
                        Len(event), active, h4_state, read_pos, Len(rx_queue))
       IN  /\ uart_write_active' = active
           /\ tx_queue' = Tail(tx_queue)
           /\ tx_pending' = tx_pending - 1
           /\ running' = packet_handler
           /\ pc' = IF packet_handler = "NULL" THEN "crashed" ELSE "tx_handler"
           /\ last' = Effect("block_sent", 0, 0, <<>>, <<>>, <<call>>)
    /\ UNCHANGED <<HCI_PACKET_BUFFER_SIZE, uart_config, uart_driver, init_calls, h4_state, bytes_to_read, read_pos,
                   packet_handler, hci_packet, uart_open, rx_queue, overrun, wire,
                   rx_blocks, rx_calls, focus, facade_calls>>

\* line 113: the handler returns and block_sent ends
block_sent_return ==
    /\ pc = "tx_handler"
    /\ pc' = "idle"
    /\ running' = "none"
    /\ last' = Effect("block_sent_return", 0, 0, <<>>, <<>>, <<>>)
    /\ UNCHANGED <<HCI_PACKET_BUFFER_SIZE, uart_config, uart_driver, init_calls, h4_state, bytes_to_read, read_pos,
                   uart_write_active, packet_handler, hci_packet, uart_open, rx_queue,
                   tx_queue, overrun, wire, rx_blocks, rx_calls, tx_pending,
                   focus, facade_calls>>

\* lines 115-170, up to the return of block_read or to the dispatch of line 163:
\* the driver has stored the block of the oldest read request (rest is what is
\* left of its queue) and calls block_read
block_read(buffer, rest, block, spilled) ==
    LET pos == read_pos + bytes_to_read
    IN  /\ hci_packet' = buffer
        /\ overrun' = (overrun \/ spilled)
        /\ wire' = Append(wire, block)
        /\ rx_blocks' = rx_blocks + 1
        /\ IF h4_state = H4_W4_PAYLOAD
           THEN LET size == delivered_size(pos)
                    at == dispatch_state(h4_state, pos, bytes_to_read)
                    call == Call("block_read", packet_handler, hci_packet'[0],
                                 delivered_packet(hci_packet', size), size,
                                 uart_write_active, at.h4_state, at.read_pos, Len(rest))
                IN  /\ h4_state' = at.h4_state
                    /\ read_pos' = at.read_pos
                    /\ bytes_to_read' = at.bytes_to_read
                    /\ rx_queue' = rest
                    /\ running' = packet_handler
                    /\ pc' = IF packet_handler = "NULL" THEN "crashed" ELSE "rx_handler"
                    /\ rx_calls' = Append(rx_calls, call)
                    /\ last' = Effect("block_read", 0, 0, <<>>, <<>>, <<call>>)
           ELSE LET st == block_read_header(h4_state, pos, hci_packet', HCI_PACKET_BUFFER_SIZE)
                    reqs == block_read_requests(st)
                IN  /\ h4_state' = st.h4_state
                    /\ read_pos' = st.read_pos
                    /\ bytes_to_read' = st.bytes_to_read
                    /\ rx_queue' = rest \o reqs
                    /\ last' = Effect("block_read", 0, 0, reqs, <<>>, <<>>)
                    /\ UNCHANGED <<pc, running, rx_calls>>
        /\ UNCHANGED <<HCI_PACKET_BUFFER_SIZE, uart_config, uart_driver, init_calls, uart_write_active, packet_handler,
                       uart_open, tx_queue, tx_pending, focus, facade_calls>>

\* the driver completes the oldest read request inside the buffer
hci_transport_h4_block_read ==
    /\ pc = "idle"
    /\ uart_open
    /\ uart_driver.block_received = "hci_transport_h4_block_read"
    /\ rx_queue # <<>>
    /\ rx_blocks < ReadBlocksBound
    /\ ~PastBuffer(Head(rx_queue), HCI_PACKET_BUFFER_SIZE)
    /\ \E block \in Blocks(Head(rx_queue).pos, Head(rx_queue).len) :
        block_read(DriverStore(hci_packet, Head(rx_queue).pos, block),
                   Tail(rx_queue), block, FALSE)

\* the driver completes a read request that ends past the buffer: undefined
\* behaviour.  The bytes past the array land in memory the transport does not
\* use and block_read runs as usual ...
block_read_past_buffer ==
    /\ pc = "idle"
    /\ uart_open
    /\ uart_driver.block_received = "hci_transport_h4_block_read"
    /\ rx_queue # <<>>
    /\ rx_blocks < ReadBlocksBound
    /\ PastBuffer(Head(rx_queue), HCI_PACKET_BUFFER_SIZE)
    /\ \E block \in Blocks(Head(rx_queue).pos, Head(rx_queue).len) :
        block_read(DriverStore(hci_packet, Head(rx_queue).pos, block),
                   Tail(rx_queue), block, TRUE)

\* ... or the program is lost
crash_past_buffer ==
    /\ pc = "idle"
    /\ uart_open
    /\ uart_driver.block_received = "hci_transport_h4_block_read"
    /\ rx_queue # <<>>
    /\ rx_blocks < ReadBlocksBound
    /\ PastBuffer(Head(rx_queue), HCI_PACKET_BUFFER_SIZE)
    /\ pc' = "crashed"
    /\ overrun' = TRUE
    /\ rx_queue' = Tail(rx_queue)
    /\ last' = Effect("crash", 0, 0, <<>>, <<>>, <<>>)
    /\ UNCHANGED <<HCI_PACKET_BUFFER_SIZE, uart_config, uart_driver, init_calls, h4_state, bytes_to_read, read_pos,
                   uart_write_active, packet_handler, hci_packet, uart_open, tx_queue,
                   running, wire, rx_blocks, rx_calls, tx_pending, focus,
                   facade_calls>>

\* lines 164-169: the handler has returned; reset, then the next read
block_read_return ==
    /\ pc = "rx_handler"
    /\ LET st == hci_transport_h4_reset_statemachine
           reqs == block_read_requests(st)
       IN  /\ h4_state' = st.h4_state
           /\ read_pos' = st.read_pos
           /\ bytes_to_read' = st.bytes_to_read
           /\ rx_queue' = rx_queue \o reqs
           /\ last' = Effect("block_read_return", 0, 0, reqs, <<>>, <<>>)
    /\ pc' = "idle"
    /\ running' = "none"
    /\ UNCHANGED <<HCI_PACKET_BUFFER_SIZE, uart_config, uart_driver, init_calls, uart_write_active, packet_handler,
                   hci_packet, uart_open, tx_queue, overrun, wire, rx_blocks,
                   rx_calls, tx_pending, focus, facade_calls>>

Next ==
    \/ hci_transport_h4_init
    \/ hci_transport_h4_open
    \/ hci_transport_h4_close
    \/ hci_transport_h4_set_baudrate
    \/ can_send_now
    \/ hci_transport_h4_register_packet_handler
    \/ hci_transport_h4_send_packet
    \/ hci_transport_h4_block_sent
    \/ block_sent_return
    \/ hci_transport_h4_block_read
    \/ block_read_past_buffer
    \/ crash_past_buffer
    \/ block_read_return

Spec == Init /\ [][Next]_vars

(***************************************************************************)
(* The wire format, as a parse of the whole byte stream: the tag, the      *)
(* type's fixed header with its length field, the payload.  A chunk is a   *)
(* packet that fits the buffer, a packet that does not ("past_buffer"), a  *)
(* corrupt tag byte, an ACL header the framer rejects ("oversize") or the  *)
(* incomplete rest of the stream ("partial").                              *)
(***************************************************************************)
PacketTypes == {HCI_EVENT_PACKET, HCI_ACL_DATA_PACKET, HCI_SCO_DATA_PACKET}

HeaderSize(packet_type) ==
    CASE packet_type = HCI_EVENT_PACKET -> HCI_EVENT_HEADER_SIZE
      [] packet_type = HCI_ACL_DATA_PACKET -> HCI_ACL_HEADER_SIZE
      [] packet_type = HCI_SCO_DATA_PACKET -> HCI_SCO_HEADER_SIZE

\* the payload length a header declares; header is the bytes after the tag
DeclaredLength(packet_type, header) ==
    CASE packet_type = HCI_EVENT_PACKET -> header[2]
      [] packet_type = HCI_ACL_DATA_PACKET -> header[3] + 256 * header[4]
      [] packet_type = HCI_SCO_DATA_PACKET -> header[3]

Chunk(kind, packet_type, packet) ==
    [kind |-> kind, packet_type |-> packet_type, packet |-> packet]

RECURSIVE Frames(_, _)
Frames(w, size) ==
    IF w = <<>> THEN <<>>
    ELSE IF w[1] \notin PacketTypes
    THEN <<Chunk("corrupt", w[1], <<>>)>> \o Frames(Tail(w), size)
    ELSE IF Len(w) < 1 + HeaderSize(w[1])
    THEN <<Chunk("partial", w[1], Tail(w))>>
    ELSE LET h == HeaderSize(w[1])
             l == DeclaredLength(w[1], SubSeq(w, 2, 1 + h))
         IN  IF w[1] = HCI_ACL_DATA_PACKET /\ h + l > size
             THEN <<Chunk("oversize", w[1], SubSeq(w, 2, 1 + h))>>
                      \o Frames(SubSeq(w, 2 + h, Len(w)), size)
             ELSE IF Len(w) < 1 + h + l
             THEN <<Chunk("partial", w[1], Tail(w))>>
             ELSE <<Chunk(IF h + l > size THEN "past_buffer" ELSE "packet",
                          w[1], SubSeq(w, 2, 1 + h + l))>>
                      \o Frames(SubSeq(w, 2 + h + l, Len(w)), size)

RECURSIVE Flatten(_)
Flatten(blocks) ==
    IF blocks = <<>> THEN <<>> ELSE Head(blocks) \o Flatten(Tail(blocks))

\* the bytes delivered since the last successful open, and their parse
WireBytes == Flatten(wire)
WireFrames == Frames(WireBytes, HCI_PACKET_BUFFER_SIZE)
WireKinds == {WireFrames[i].kind : i \in DOMAIN WireFrames}
IsPacket(chunk) == chunk.kind \in {"packet", "past_buffer"}

\* the read blocks a chunk is delivered in: tag, header, payload (an empty
\* payload is a block of its own)
ChunkBlocks(chunk) ==
    CASE chunk.kind \in {"packet", "past_buffer"} -> 3
      [] chunk.kind = "oversize" -> 2
      [] chunk.kind = "corrupt" -> 1
      [] chunk.kind = "partial" -> IF chunk.packet = <<>> THEN 1 ELSE 2

RECURSIVE SumBlocks(_)
SumBlocks(chunks) ==
    IF chunks = <<>> THEN 0 ELSE ChunkBlocks(Head(chunks)) + SumBlocks(Tail(chunks))

\* the last packet of the wire has an empty payload whose read has not completed
EmptyPayloadPending == Len(wire) < SumBlocks(WireFrames)

\* the packets of the wire whose every read has completed
WirePackets ==
    LET all == SelectSeq(WireFrames, IsPacket)
    IN  IF EmptyPayloadPending THEN SubSeq(all, 1, Len(all) - 1) ELSE all

\* the receive-path invocations are, in order, the packets of the wire
DeliveredAreWirePackets ==
    /\ Len(rx_calls) = Len(WirePackets)
    /\ \A i \in DOMAIN rx_calls :
        /\ rx_calls[i].packet_type = WirePackets[i].packet_type
        /\ rx_calls[i].packet = WirePackets[i].packet
        /\ rx_calls[i].size = Len(WirePackets[i].packet)

(***************************************************************************)
(* C1.  Framing completeness: while the bytes delivered since open() are a *)
(* concatenation of well-formed Event, ACL and SCO packets that fit the    *)
(* buffer (the last one possibly still incomplete), the receive path has   *)
(* invoked the handler exactly once per packet read to its end, in order,  *)
(* with the packet's tag as packet_type and exactly its header and payload *)
(* bytes as data, and has made no other invocation.                        *)
(***************************************************************************)
C1_FramingCompleteness ==
    WireKinds \subseteq {"packet", "partial"} => DeliveredAreWirePackets

\* two packets of different types have been delivered from a well-formed stream
C1_Witness ==
    /\ WireKinds = {"packet"}
    /\ Len(rx_calls) = 2
    /\ rx_calls[1].packet_type # rx_calls[2].packet_type
    /\ rx_calls[2].size > HeaderSize(rx_calls[2].packet_type)

(***************************************************************************)
(* C2.  Length fidelity: every packet the framer has delivered was passed  *)
(* with size = header size of its type + the payload length its header     *)
(* declares, which is read_pos - 1 at the dispatch.                        *)
(***************************************************************************)
C2_LengthFidelity ==
    \A i \in DOMAIN rx_calls :
        LET c == rx_calls[i]
        IN  /\ c.packet_type \in PacketTypes
            /\ c.size = HeaderSize(c.packet_type)
                            + DeclaredLength(c.packet_type, c.packet)
            /\ c.size = c.read_pos - 1

\* an ACL packet with a 16-bit length above 255 has been delivered
C2_Witness ==
    \E i \in DOMAIN rx_calls :
        /\ rx_calls[i].packet_type = HCI_ACL_DATA_PACKET
        /\ rx_calls[i].size = HCI_ACL_HEADER_SIZE + 257

(***************************************************************************)
(* C3.  Send-gate exclusivity: can_send_now() is false exactly while some  *)
(* send_packet call is waiting for its write-completion callback, for      *)
(* every packet type argument.                                             *)
(***************************************************************************)
C3_GateFalseUntilCompletion ==
    \A packet_type \in PacketTypes \cup SendTypes :
        hci_transport_h4_can_send_now(packet_type) <=> (tx_pending = 0)

(***************************************************************************)
(* C4.  One transmit in flight: a send_packet call made while              *)
(* can_send_now() is false issues no write request, and the driver never   *)
(* holds more than one write request.                                      *)
(***************************************************************************)
C4_OneWriteInFlight == Len(tx_queue) <= 1

(***************************************************************************)
(* C5.  The write gate is cleared by open() and by close(): right after a  *)
(* successful open() or close(), can_send_now() is true.                   *)
(***************************************************************************)
C5_GateClearedByOpenClose ==
    (last.op \in {"open", "close"} /\ last.ret = 0)
        => hci_transport_h4_can_send_now(HCI_COMMAND_DATA_PACKET)

ScoPayloadRead == h4_state = H4_W4_PAYLOAD /\ hci_packet[0] = HCI_SCO_DATA_PACKET

ReadCompletes(state) == h4_state = state /\ Len(wire') = Len(wire) + 1

\* the framer is reset and the one request issued is the tag read
ResetAndTagRead ==
    /\ h4_state' = H4_W4_PACKET_TYPE
    /\ read_pos' = 0
    /\ bytes_to_read' = 1
    /\ last'.reads = <<[pos |-> 0, len |-> 1]>>
    /\ rx_queue' = <<[pos |-> 0, len |-> 1]>>

\* the payload length declared by the ACL header block just delivered
AclHeaderLength(block) == block[3] + 256 * block[4]

\* a read request of an ACL packet: its header read or its payload read
AclRead == hci_packet[0] = HCI_ACL_DATA_PACKET
               /\ h4_state \in {H4_W4_ACL_HEADER, H4_W4_PAYLOAD}

(***************************************************************************)
(* C7.  ACL bounds: a read completion in H4_W4_ACL_HEADER whose header     *)
(* declares a length L with 4 + L > HCI_PACKET_BUFFER_SIZE invokes no      *)
(* handler, resets the framer (H4_W4_PACKET_TYPE, read_pos 0,              *)
(* bytes_to_read 1) and issues the read of 1 byte at offset 0; and no read *)
(* request of an ACL packet ends beyond 1 + HCI_PACKET_BUFFER_SIZE.        *)
(***************************************************************************)
C7_AclBounds ==
    /\ [][(/\ ReadCompletes(H4_W4_ACL_HEADER)
           /\ HCI_ACL_HEADER_SIZE + AclHeaderLength(wire'[Len(wire')])
                  > HCI_PACKET_BUFFER_SIZE)
              => (/\ last'.calls = <<>>
                  /\ rx_calls' = rx_calls
                  /\ pc' = "idle"
                  /\ ResetAndTagRead)]_vars
    /\ [](AclRead =>
            \A i \in DOMAIN rx_queue :
                rx_queue[i].pos + rx_queue[i].len <= 1 + HCI_PACKET_BUFFER_SIZE)

\* an ACL header one byte too long for the buffer has been rejected
C7_Witness ==
    /\ wire # <<>>
    /\ Len(wire[Len(wire)]) = HCI_ACL_HEADER_SIZE
    /\ HCI_ACL_HEADER_SIZE + AclHeaderLength(wire[Len(wire)])
           = HCI_PACKET_BUFFER_SIZE + 1
    /\ last.op = "block_read"
    /\ h4_state = H4_W4_PACKET_TYPE

(***************************************************************************)
(* C8.  Resync: a read completion in H4_W4_PACKET_TYPE with a byte that is *)
(* no Event, ACL or SCO tag discards that one byte: no handler is invoked, *)
(* the framer stays in H4_W4_PACKET_TYPE with read_pos 0 and               *)
(* bytes_to_read 1 and the read of 1 byte at offset 0 is issued; and when  *)
(* the wire holds corrupt tag bytes between well-formed packets, the       *)
(* packets are delivered once each, in order and unmodified.               *)
(***************************************************************************)
C8_Resync ==
    /\ [][(/\ ReadCompletes(H4_W4_PACKET_TYPE)
           /\ wire'[Len(wire')][1] \notin PacketTypes)
              => (/\ Len(wire'[Len(wire')]) = 1
                  /\ last'.calls = <<>>
                  /\ rx_calls' = rx_calls
                  /\ pc' = "idle"
                  /\ ResetAndTagRead)]_vars
    /\ []((/\ "corrupt" \in WireKinds
           /\ WireKinds \subseteq {"corrupt", "packet", "partial"})
              => DeliveredAreWirePackets)

\* a corrupt tag byte, then a packet with a payload, delivered
C8_Witness ==
    /\ Len(wire) = 4
    /\ wire[1][1] \notin PacketTypes
    /\ Len(rx_calls) = 1
    /\ rx_calls[1].packet = wire[3] \o wire[4]
    /\ wire[4] # <<>>

(***************************************************************************)
(* C9.  On every write-completion callback the write gate is cleared       *)
(* before the dispatch, and the handler is invoked exactly once, with      *)
(* packet type Event and the two bytes HCI_EVENT_TRANSPORT_PACKET_SENT, 0: *)
(* can_send_now() is true when the handler starts to run.                  *)
(***************************************************************************)
C9_SentEventAfterGateCleared ==
    /\ [][last'.op = "block_sent"
              => (/\ Len(tx_queue') = Len(tx_queue) - 1
                  /\ uart_write_active' = 0
                  /\ Len(last'.calls) = 1
                  /\ last'.calls[1].write_active = 0
                  /\ last'.calls[1].target = packet_handler
                  /\ last'.calls[1].packet_type = HCI_EVENT_PACKET
                  /\ last'.calls[1].packet = <<HCI_EVENT_TRANSPORT_PACKET_SENT, 0>>
                  /\ last'.calls[1].size = 2
                  /\ rx_calls' = rx_calls)]_vars
    /\ []((pc = "tx_handler" /\ last.op = "block_sent")
              => \A packet_type \in SendTypes :
                    hci_transport_h4_can_send_now(packet_type))
    /\ [][(pc = "tx_handler" /\ last.op = "block_sent" /\ last'.op = "send_packet")
              => hci_transport_h4_can_send_now(last'.writes[1].tag)]_vars

\* the consumer's handler, running inside block_sent, has sent the next packet
C9_Witness ==
    /\ pc = "tx_handler"
    /\ running = "consumer"
    /\ last.op = "send_packet"
    /\ tx_pending = 1
    /\ Len(tx_queue) = 1
    /\ ~hci_transport_h4_can_send_now(HCI_ACL_DATA_PACKET)

(***************************************************************************)
(* C10.  open(): when the driver's open succeeds, open() returns 0, the    *)
(* framer is reset (H4_W4_PACKET_TYPE, read_pos 0, bytes_to_read 1) and    *)
(* exactly one read request, 1 byte at offset 0, is issued; when it fails, *)
(* open() returns the driver's error code, h4_state, read_pos and          *)
(* bytes_to_read are unchanged and no read request is issued.              *)
(***************************************************************************)
C10_Open ==
    [][last'.op = "open"
          => IF last'.driver = 0
             THEN /\ last'.ret = 0
                  /\ ResetAndTagRead
             ELSE /\ last'.ret = last'.driver
                  /\ UNCHANGED <<h4_state, read_pos, bytes_to_read, rx_queue>>
                  /\ last'.reads = <<>>]_vars

\* a failed open() in the middle of a packet has left the framer where it was
C10_Witness ==
    /\ last.op = "open"
    /\ last.driver # 0
    /\ last.ret # 0
    /\ h4_state = H4_W4_PAYLOAD
    /\ read_pos > 0

(***************************************************************************)
(* C11.  Every dispatch, by the receive framer or by the send gate, goes   *)
(* to a present handler: the no-op sink dummy_handler while none has been  *)
(* registered, the most recently registered handler afterwards; no         *)
(* dispatch goes through a null handler.                                   *)
(***************************************************************************)
C11_DispatchToPresentHandler ==
    \A i \in DOMAIN last.calls :
        /\ last.calls[i].target = packet_handler
        /\ last.calls[i].target # "NULL"

(***************************************************************************)
(* C12.  init() with no configuration, or with one that is not of the UART *)
(* kind, returns without effect: the stored baud rate, flow control and    *)
(* device name are unchanged, the driver's init is not called and no       *)
(* callback is wired.  With a UART configuration the three fields are      *)
(* copied, the driver's init is called once and the block-received and     *)
(* block-sent callbacks are wired to block_read and block_sent.            *)
(***************************************************************************)
C12_Init ==
    [][last'.op = "init"
          => IF \/ ~last'.arg.present
                \/ last'.arg.type # "HCI_TRANSPORT_CONFIG_UART"
             THEN UNCHANGED <<uart_config, uart_driver>>
             ELSE /\ uart_config'.baudrate = last'.arg.baudrate_init
                  /\ uart_config'.flowcontrol = last'.arg.flowcontrol
                  /\ uart_config'.device_name = last'.arg.device_name
                  /\ uart_driver'.inits = uart_driver.inits + 1
                  /\ uart_driver'.block_received = "hci_transport_h4_block_read"
                  /\ uart_driver'.block_sent = "hci_transport_h4_block_sent"]_vars

\* init() has refused a configuration of another kind and has kept what an
\* earlier init() stored
C12_Witness ==
    /\ last.op = "init"
    /\ last.arg.present
    /\ last.arg.type # "HCI_TRANSPORT_CONFIG_UART"
    /\ uart_driver.inits = 1
    /\ uart_config.baudrate # last.arg.baudrate_init
    /\ uart_config.device_name = "/dev/ttyS0"

(***************************************************************************)
(* C13.  send_packet(type, payload, length) called while can_send_now() is *)
(* true stores type in the byte just before the payload, sets the write    *)
(* gate, issues exactly one driver write request of length + 1 bytes that  *)
(* starts at that tag byte, and returns 0 with the request still           *)
(* outstanding; the payload bytes are unchanged.                           *)
(***************************************************************************)
C13_SendPacket ==
    [][(/\ last'.op = "send_packet"
        /\ hci_transport_h4_can_send_now(last'.arg.packet_type))
          => LET arg == last'.arg
                 payload == [i \in 1..arg.size |-> arg.memory[arg.packet + i - 1]]
             IN  /\ Len(last'.writes) = 1
                 /\ last'.writes[1].addr = arg.packet - 1
                 /\ last'.writes[1].len = arg.size + 1
                 /\ last'.writes[1].bytes = <<arg.packet_type>> \o payload
                 /\ \A i \in 1..arg.size :
                        last'.writes[1].memory[arg.packet + i - 1] = payload[i]
                 /\ uart_write_active' = 1
                 /\ last'.ret = 0
                 /\ last'.calls = <<>>
                 /\ pc' = pc
                 /\ uart_open => tx_queue' = Append(tx_queue, arg.size + 1)]_vars

\* an ACL packet has been sent on an open port with the gate clear
C13_Witness ==
    /\ last.op = "send_packet"
    /\ uart_open
    /\ tx_pending = 1
    /\ tx_queue = <<last.arg.size + 1>>
    /\ last.writes[1].bytes[1] = HCI_ACL_DATA_PACKET
    /\ last.writes[1].bytes[2] = last.arg.memory[last.arg.packet]
    /\ ~hci_transport_h4_can_send_now(HCI_ACL_DATA_PACKET)

(***************************************************************************)
(* C14.  For every packet type and every HCI_PACKET_BUFFER_SIZE the sizing *)
(* rule permits, every read request issued to the driver ends inside the   *)
(* packet buffer: read_pos + bytes_to_read <= 1 + HCI_PACKET_BUFFER_SIZE.  *)
(***************************************************************************)
C14_ReadEndsInsideBuffer ==
    /\ ~overrun
    /\ \A i \in DOMAIN rx_queue :
           rx_queue[i].pos + rx_queue[i].len <= 1 + HCI_PACKET_BUFFER_SIZE
    /\ last.reads # <<>> => read_pos + bytes_to_read <= 1 + HCI_PACKET_BUFFER_SIZE

\* a read request of len bytes at offset pos
ReadRequest(pos, len) == [pos |-> pos, len |-> len]

\* the step is a read completion: a block is added to the wire
BlockRead == Len(wire') = Len(wire) + 1

(***************************************************************************)
(* C15.  The framer never reads past a packet boundary.  For a packet with *)
(* tag T, fixed header size H and declared payload length L the requests   *)
(* are (offset 0, 1 byte), then (offset 1, H bytes), then (offset 1 + H,   *)
(* L bytes): each completed block is exactly the request it answers, the   *)
(* packet is dispatched with read_pos = 1 + H + L, and the request issued  *)
(* after the delivery is (offset 0, 1 byte) again.                         *)
(***************************************************************************)
C15_NoOverRead ==
    /\ [][BlockRead =>
            LET block == wire'[Len(wire')]
                req == Head(rx_queue)
            IN  /\ Len(block) = req.len
                /\ h4_state = H4_W4_PACKET_TYPE =>
                      /\ req = ReadRequest(0, 1)
                      /\ block[1] \in PacketTypes
                            => last'.reads = <<ReadRequest(1, HeaderSize(block[1]))>>
                /\ h4_state \in {H4_W4_EVENT_HEADER, H4_W4_ACL_HEADER, H4_W4_SCO_HEADER} =>
                      LET tag == wire[Len(wire)][1]
                          H == HeaderSize(tag)
                          L == DeclaredLength(tag, block)
                      IN  /\ req = ReadRequest(1, H)
                          /\ (tag = HCI_ACL_DATA_PACKET => H + L <= HCI_PACKET_BUFFER_SIZE)
                                => last'.reads = <<ReadRequest(1 + H, L)>>
                /\ h4_state = H4_W4_PAYLOAD =>
                      LET tag == wire[Len(wire) - 1][1]
                          H == HeaderSize(tag)
                          L == DeclaredLength(tag, wire[Len(wire)])
                      IN  /\ req = ReadRequest(1 + H, L)
                          /\ read_pos' = 1 + H + L
                          /\ last'.reads = <<>>
                          /\ rx_queue' = <<>>]_vars
    /\ [][(pc = "rx_handler" /\ pc' = "idle")
              => (last'.reads = <<ReadRequest(0, 1)>> /\ rx_queue' = last'.reads)]_vars

\* an ACL packet that fills the buffer has been read in three blocks and
\* delivered, and the handler has returned
C15_Witness ==
    /\ last.op = "block_read_return"
    /\ Len(wire) = 3
    /\ wire[1] = <<HCI_ACL_DATA_PACKET>>
    /\ Len(wire[2]) = HCI_ACL_HEADER_SIZE
    /\ Len(wire[3]) = HCI_PACKET_BUFFER_SIZE - HCI_ACL_HEADER_SIZE
    /\ Len(rx_calls) = 1
    /\ rx_queue = <<ReadRequest(0, 1)>>

(***************************************************************************)
(* C16.  While the port is open and no callback is executing, exactly one  *)
(* read request is outstanding at the driver.  Every read completion       *)
(* issues exactly one new request before block_read returns, after the     *)
(* reset for a corrupt tag and after the reset for an oversize ACL length  *)
(* as well; apart from that only a successful open() issues one.           *)
(***************************************************************************)
C16_OneReadOutstanding ==
    /\ []((uart_open /\ pc = "idle") => Len(rx_queue) = 1)
    /\ [][(BlockRead /\ pc' = "idle")
              => (Len(last'.reads) = 1 /\ rx_queue' = last'.reads)]_vars
    /\ [][(pc = "rx_handler" /\ pc' = "idle")
              => (Len(last'.reads) = 1 /\ rx_queue' = last'.reads)]_vars
    /\ [][(last'.op = "open" /\ last'.driver = 0) => Len(last'.reads) = 1]_vars
    /\ [][(~BlockRead /\ pc' # "idle") => last'.reads = <<>>]_vars
    /\ [][last'.op \notin {"open", "block_read", "block_read_return"}
              => (last'.reads = <<>> /\ Len(rx_queue') <= Len(rx_queue))]_vars

\* both error resets have happened and one request is outstanding
C16_Witness ==
    /\ "corrupt" \in WireKinds
    /\ "oversize" \in WireKinds
    /\ uart_open
    /\ pc = "idle"
    /\ last.op = "block_read"
    /\ Len(rx_queue) = 1

(***************************************************************************)
(* C17.  A received packet is dispatched while the framer is still in      *)
(* H4_W4_PAYLOAD with read_pos at the end of the packet and with no read   *)
(* request outstanding at the driver; this stays so for the whole handler  *)
(* invocation, and only when the handler has returned is the framer reset  *)
(* and the read of 1 byte at offset 0 issued.                              *)
(***************************************************************************)
C17_DispatchBeforeReset ==
    /\ [](pc = "rx_handler" =>
            /\ h4_state = H4_W4_PAYLOAD
            /\ rx_queue = <<>>
            /\ rx_calls # <<>>
            /\ read_pos = 1 + rx_calls[Len(rx_calls)].size)
    /\ [][Len(rx_calls') = Len(rx_calls) + 1 =>
            LET call == rx_calls'[Len(rx_calls')]
            IN  /\ last'.calls = <<call>>
                /\ call.h4_state = H4_W4_PAYLOAD
                /\ call.read_pos = 1 + call.size
                /\ call.outstanding = 0
                /\ last'.reads = <<>>]_vars
    /\ [][(pc = "rx_handler" /\ pc' = "idle") => ResetAndTagRead]_vars

\* the consumer's handler has sent a packet from inside the invocation for a
\* received packet, and the framer is still parked at the end of that packet
C17_Witness ==
    /\ pc = "rx_handler"
    /\ running = "consumer"
    /\ last.op = "send_packet"
    /\ h4_state = H4_W4_PAYLOAD
    /\ read_pos > 1
    /\ rx_queue = <<>>

\* the framer's state
Framer == <<h4_state, read_pos, bytes_to_read>>

(***************************************************************************)
(* C18.  The receive path and the send path do not interfere.              *)
(* send_packet, the write-completion callback, can_send_now,               *)
(* register_packet_handler, set_baudrate and close leave h4_state,         *)
(* read_pos and bytes_to_read as they are: only a read completion and a    *)
(* successful open() change them.  A read completion, from the callback to *)
(* its return, does not change the write gate itself: only a send_packet   *)
(* made by the handler does.                                               *)
(***************************************************************************)
C18_NoInterference ==
    /\ [][last'.op \in {"send_packet", "block_sent", "block_sent_return",
                        "can_send_now", "register_packet_handler", "set_baudrate",
                        "close"}
              => UNCHANGED Framer]_vars
    /\ [][Framer' # Framer
              => \/ last'.op \in {"block_read", "block_read_return"}
                 \/ last'.op = "open" /\ last'.driver = 0]_vars
    /\ [][last'.op \in {"block_read", "block_read_return"}
              => UNCHANGED uart_write_active]_vars
    /\ [][uart_write_active' # uart_write_active
              => last'.op \in {"send_packet", "block_sent"}]_vars

\* close() has succeeded in the middle of a packet, with a write pending, and
\* the framer is parked where it was
C18_Witness ==
    /\ last.op = "close"
    /\ last.ret = 0
    /\ h4_state = H4_W4_PAYLOAD
    /\ read_pos > 1
    /\ uart_write_active = 1

\* the framer is waiting for a header
InHeaderState == h4_state \in {H4_W4_EVENT_HEADER, H4_W4_ACL_HEADER, H4_W4_SCO_HEADER}

(***************************************************************************)
(* C19.  A packet whose header declares payload length 0 is not delivered  *)
(* when its header read completes: the framer moves to H4_W4_PAYLOAD and   *)
(* issues a read request of 0 bytes.  The handler is invoked, with the     *)
(* header size as length, only when the driver reports that request        *)
(* complete; as long as it does not, nothing is delivered and the framer   *)
(* stays in H4_W4_PAYLOAD.                                                 *)
(***************************************************************************)
C19_EmptyPayload ==
    /\ [][(/\ BlockRead
           /\ InHeaderState
           /\ DeclaredLength(wire[Len(wire)][1], wire'[Len(wire')]) = 0)
              => (/\ h4_state' = H4_W4_PAYLOAD
                  /\ bytes_to_read' = 0
                  /\ last'.reads = <<ReadRequest(1 + HeaderSize(wire[Len(wire)][1]), 0)>>
                  /\ rx_queue' = last'.reads
                  /\ last'.calls = <<>>
                  /\ rx_calls' = rx_calls
                  /\ pc' = "idle")]_vars
    /\ [][(BlockRead /\ h4_state = H4_W4_PAYLOAD /\ bytes_to_read = 0)
              => (/\ wire'[Len(wire')] = <<>>
                  /\ Len(last'.calls) = 1
                  /\ rx_calls' = Append(rx_calls, last'.calls[1])
                  /\ last'.calls[1].packet_type = wire[Len(wire) - 1][1]
                  /\ last'.calls[1].size = HeaderSize(last'.calls[1].packet_type)
                  /\ last'.calls[1].packet = wire[Len(wire)])]_vars
    /\ [][(~BlockRead /\ h4_state = H4_W4_PAYLOAD /\ pc = "idle")
              => \/ (h4_state' = H4_W4_PAYLOAD /\ rx_calls' = rx_calls)
                 \/ (last'.op = "open" /\ last'.driver = 0)]_vars

\* an SCO packet without payload has been delivered on the completion of the
\* read of no bytes
C19_Witness ==
    /\ last.op = "block_read"
    /\ Len(wire) = 3
    /\ wire[3] = <<>>
    /\ Len(last.calls) = 1
    /\ last.calls[1].packet_type = HCI_SCO_DATA_PACKET
    /\ last.calls[1].size = HCI_SCO_HEADER_SIZE

(***************************************************************************)
(* A fair driver and fair handlers: the driver completes every request it  *)
(* holds, as far as the bounds of the run go, and a handler that has been  *)
(* invoked returns.                                                        *)
(***************************************************************************)
FairSpec ==
    /\ Spec
    /\ WF_vars(hci_transport_h4_block_read)
    /\ WF_vars(block_read_past_buffer \/ crash_past_buffer)
    /\ WF_vars(hci_transport_h4_block_sent)
    /\ WF_vars(block_read_return)
    /\ WF_vars(block_sent_return)

\* the port is open and the callbacks are wired
Running ==
    /\ uart_open
    /\ uart_driver.block_received = "hci_transport_h4_block_read"
    /\ uart_driver.block_sent = "hci_transport_h4_block_sent"

\* the framer waits for a tag byte
AwaitingType == h4_state = H4_W4_PACKET_TYPE /\ read_pos = 0 /\ bytes_to_read = 1

(***************************************************************************)
(* C20.  Under a fair driver, while the port stays open: from every state  *)
(* the framer returns to H4_W4_PACKET_TYPE with read_pos 0 and             *)
(* bytes_to_read 1 (unless the run's read blocks are used up), and every   *)
(* send_packet is followed by a state in which can_send_now() is true.     *)
(***************************************************************************)
C20_FramerAndGateRecover ==
    /\ [](Running => <>(AwaitingType \/ ~uart_open \/ rx_blocks >= ReadBlocksBound))
    /\ []((Running /\ last.op = "send_packet")
              => <>(hci_transport_h4_can_send_now(HCI_COMMAND_DATA_PACKET) \/ ~uart_open))

====
